---- MODULE Spec2Model ----
(***************************************************************************)
(* Model of the geometric / quality-assessment core of the borehole data   *)
(* extraction: the spatial line index (LinesQuadTree), the layer and       *)
(* metadata evaluation of FilePredictions, the Metrics dataclass, the      *)
(* corpus rollup (OverallBoreholeMetadataMetrics) and the duplicate layer  *)
(* detection (remove_duplicate_layers).                                    *)
(* Each component has its own specification (SpecIndex, SpecLayers,        *)
(* SpecMeta, SpecMetrics, SpecOverall, SpecDup); the state of the other    *)
(* components stays idle.                                                  *)
(*                                                                         *)
(* Conventions.                                                            *)
(*  - A Python value that may be None is a sequence of length <= 1:        *)
(*    <<>> is None and <<v>> is the value v.                               *)
(*  - Real-valued page coordinates are fixed-point integers: the integer c *)
(*    stands for the real number c / Scale.                                *)
(***************************************************************************)
EXTENDS Integers, Sequences, FiniteSets, TLC

VARIABLES
    \* LinesQuadTree
    hashmap,            \* self.hashmap: line_key -> Line
    qtree,              \* self.qtree: rounded point -> set of line keys (point.data)
    next_key,           \* number of keys handed out so far by uuid.uuid4()
    last_op,            \* the last call made on the index
    returned,           \* the set of keys the last call returned
    raised,             \* the exception the last call ended with, "none" if it returned
    remove_called,      \* history: remove() has been called at least once
    \* FilePredictions.evaluate_layers
    layers,             \* self.layers: the predicted layers, in their original order
    ground_truth_layers,\* the argument of evaluate_layers
    unmatched_layers,   \* the pool: positions in ground_truth_layers not yet consumed
    layer_index,        \* number of loop iterations started (the layer last evaluated)
    eval_pc,            \* "created", "evaluating", "done" or "raised"
    pool_before,        \* history: the pool as the last iteration found it
    consumed,           \* history: per evaluated layer the position it removed, 0 if none
    \* FilePredictions.evaluate_metadata
    metadata,           \* self.metadata: BoreholeMetaData or None
    metadata_ground_truth, \* the argument of evaluate_metadata: a dict or None
    metadata_is_correct,\* self.metadata_is_correct: field name -> True, False or None
    meta_pc,            \* "created", "done", or the exception evaluate_metadata raised
    \* Metrics
    metrics,            \* a Metrics object: tp, fp, fn
    scores,             \* what to_json returned: precision, recall, f1; None before
    \* OverallBoreholeMetadataMetrics
    borehole_metadata_metrics, \* per instance: self.borehole_metadata_metrics
    overall_call,       \* the last call made on an instance
    summed,             \* the locals elevation_metrics, coordinates_metrics of the
                        \* last get_cumulated_metrics
    overall_returned,   \* what the last call returned, None if nothing
    overall_raised,     \* the exception the last call ended with, "none" if it returned
    \* remove_duplicate_layers
    layer_predictions,  \* the argument: the layers of the current page
    sorted_layers,      \* the layers sorted by the top of their rectangle
    duplicated_layer_index, \* index (from 0) of the last layer found on the previous page
    count_consecutive_non_duplicate_layers,
    scan_index,         \* index (from 0) of the next layer the loop visits
    scored,             \* history: the indexes of the layers matched so far, in order
    dup_pc,             \* "called", "scanning" or "returned"
    dup_returned        \* the list returned

indexVars == <<hashmap, qtree, next_key, last_op, returned, raised, remove_called>>

layerVars == <<layers, ground_truth_layers, unmatched_layers, layer_index, eval_pc,
               pool_before, consumed>>

metaVars == <<metadata, metadata_ground_truth, metadata_is_correct, meta_pc>>

metricsVars == <<metrics, scores>>

overallVars == <<borehole_metadata_metrics, overall_call, summed, overall_returned,
                 overall_raised>>

dupVars == <<layer_predictions, sorted_layers, duplicated_layer_index,
             count_consecutive_non_duplicate_layers, scan_index, scored, dup_pc,
             dup_returned>>

vars == <<indexVars, layerVars, metaVars, metricsVars, overallVars, dupVars>>

nonIndexVars == <<layerVars, metaVars, metricsVars, overallVars, dupVars>>
nonLayerVars == <<indexVars, metaVars, metricsVars, overallVars, dupVars>>
nonMetaVars == <<indexVars, layerVars, metricsVars, overallVars, dupVars>>
nonMetricsVars == <<indexVars, layerVars, metaVars, overallVars, dupVars>>
nonOverallVars == <<indexVars, layerVars, metaVars, metricsVars, dupVars>>
nonDupVars == <<indexVars, layerVars, metaVars, metricsVars, overallVars>>

None == <<>>
Some(v) == <<v>>

Max(a, b) == IF a >= b THEN a ELSE b
Min(a, b) == IF a <= b THEN a ELSE b
Abs(a) == IF a >= 0 THEN a ELSE -a

(***************************************************************************)
(* Spatial line index                                                      *)
(***************************************************************************)

\* Bounds of the index model.
MaxKeys == 2
MaxTol == 1
Scale == 2

XCoords == {0, 1}
YCoords == {0, 3}
Points == [x : XCoords, y : YCoords]
Lines == [start : Points, end : Points]
Tols == 0 .. MaxTol
Keys == 0 .. (MaxKeys - 1)

\* Python's round() on a float: to the nearest integer, ties to the even one.
round(c) ==
    LET q == c \div Scale
        r == c % Scale
    IN  IF 2 * r < Scale THEN q
        ELSE IF 2 * r > Scale THEN q + 1
        ELSE IF q % 2 = 0 THEN q ELSE q + 1

coordinates(point) == <<round(point.x), round(point.y)>>

\* qtree.find(coordinates) followed by data.add / qtree.insert
qtree_insert(qt, point, line_key) ==
    LET c == coordinates(point)
    IN  IF c \in DOMAIN qt
        THEN [qt EXCEPT ![c] = @ \cup {line_key}]
        ELSE [p \in DOMAIN qt \cup {c} |-> IF p = c THEN {line_key} ELSE qt[p]]

\* set.remove raises KeyError when the key is not in the set
qtree_delete_raises(qt, point, line_key) ==
    LET c == coordinates(point)
    IN  c \in DOMAIN qt /\ line_key \notin qt[c]

qtree_delete(qt, point, line_key) ==
    LET c == coordinates(point)
    IN  IF c \in DOMAIN qt THEN [qt EXCEPT ![c] = @ \ {line_key}] ELSE qt

\* quads.BoundingBox(min_x - tol, min_y - tol, max_x + tol, max_y + tol)
BoundingBox(line, tol) ==
    [min_x |-> Min(line.start.x, line.end.x) - tol,
     min_y |-> Min(line.start.y, line.end.y) - tol,
     max_x |-> Max(line.start.x, line.end.x) + tol,
     max_y |-> Max(line.start.y, line.end.y) + tol]

\* a point with real coordinates (x / Scale, y / Scale) lies in the box
bb_contains(bb, x, y) ==
    /\ bb.min_x <= x /\ x <= bb.max_x
    /\ bb.min_y <= y /\ y <= bb.max_y

\* qtree.within_bb(bb): the indexed (integer) points inside the box
within_bb(qt, bb) ==
    {c \in DOMAIN qt : bb_contains(bb, c[1] * Scale, c[2] * Scale)}

\* a variant that forgets to skip the queried line itself
neighbouring_lines_with_self(hm, qt, line_key, tol) ==
    IF line_key \notin DOMAIN hm
    THEN {}
    ELSE LET points == within_bb(qt, BoundingBox(hm[line_key], tol))
         IN  {k \in UNION {qt[c] : c \in points} : k \in DOMAIN hm}

neighbouring_lines_of(hm, qt, line_key, tol) ==
    IF line_key \notin DOMAIN hm
    THEN {}
    ELSE LET points == within_bb(qt, BoundingBox(hm[line_key], tol))
         IN  {k \in UNION {qt[c] : c \in points} :
                  k # line_key /\ k \in DOMAIN hm}

IndexInit ==
    /\ hashmap = << >>
    /\ qtree = << >>
    /\ next_key = 0
    /\ last_op = [op |-> "init", key |-> 0, tol |-> 0]
    /\ returned = {}
    /\ raised = "none"
    /\ remove_called = FALSE

add(line) ==
    /\ next_key < MaxKeys
    /\ LET line_key == next_key
       IN  /\ hashmap' = [k \in DOMAIN hashmap \cup {line_key} |->
                              IF k = line_key THEN line ELSE hashmap[k]]
           /\ qtree' = qtree_insert(qtree_insert(qtree, line.start, line_key),
                                    line.end, line_key)
           /\ last_op' = [op |-> "add", key |-> line_key, tol |-> 0]
           /\ returned' = {line_key}
    /\ next_key' = next_key + 1
    /\ raised' = "none"
    /\ UNCHANGED remove_called
    /\ UNCHANGED nonIndexVars

remove(line_key) ==
    /\ last_op' = [op |-> "remove", key |-> line_key, tol |-> 0]
    /\ returned' = {}
    /\ remove_called' = TRUE
    /\ UNCHANGED next_key
    /\ UNCHANGED nonIndexVars
    /\ IF line_key \notin DOMAIN hashmap
       THEN /\ raised' = "none"
            /\ UNCHANGED <<hashmap, qtree>>
       ELSE LET line == hashmap[line_key]
                after_start == qtree_delete(qtree, line.start, line_key)
            IN  IF qtree_delete_raises(qtree, line.start, line_key)
                THEN /\ raised' = "KeyError"
                     /\ UNCHANGED <<hashmap, qtree>>
                ELSE IF qtree_delete_raises(after_start, line.end, line_key)
                THEN /\ raised' = "KeyError"
                     /\ qtree' = after_start
                     /\ UNCHANGED hashmap
                ELSE /\ raised' = "none"
                     /\ qtree' = qtree_delete(after_start, line.end, line_key)
                     /\ hashmap' = [k \in DOMAIN hashmap \ {line_key} |-> hashmap[k]]

neighbouring_lines(line_key, tol) ==
    /\ last_op' = [op |-> "neighbouring_lines", key |-> line_key, tol |-> tol]
    /\ returned' = neighbouring_lines_of(hashmap, qtree, line_key, tol)
    /\ raised' = "none"
    /\ UNCHANGED <<hashmap, qtree, next_key, remove_called>>
    /\ UNCHANGED nonIndexVars

IndexNext ==
    \/ \E line \in Lines : add(line)
    \/ \E line_key \in Keys : remove(line_key)
    \/ \E line_key \in Keys, tol \in Tols : neighbouring_lines(line_key, tol)

(***************************************************************************)
(* Layer evaluation: FilePredictions.evaluate_layers                       *)
(***************************************************************************)

\* Bounds of the layer model.
MaxLayers == 2
MaxGroundTruth == 2

\* A text is a sequence of character codes: 1..26 are the lower-case letters,
\* 101..126 the upper-case letters, 0 stands for a character that is neither a
\* letter nor a digit (blank, comma).

\* "Abcde fghij" and "abcdefghijk"
LayerTexts == {<<101, 2, 3, 4, 5, 0, 6, 7, 8, 9, 10>>,
               <<1, 2, 3, 4, 5, 6, 7, 8, 9, 10, 11>>}

\* "abcdefghij", "abcdefghijk" and "abcdefghil"
GroundTruthTexts == {<<1, 2, 3, 4, 5, 6, 7, 8, 9, 10>>,
                     <<1, 2, 3, 4, 5, 6, 7, 8, 9, 10, 11>>,
                     <<1, 2, 3, 4, 5, 6, 7, 8, 9, 12>>}

\* BoundaryInterval(start, end), each a DepthColumnEntry (its value) or None
DepthIntervals ==
    {[start |-> None, end |-> None],
     [start |-> None, end |-> Some(1)],
     [start |-> Some(1), end |-> Some(2)],
     [start |-> Some(1), end |-> None]}

LayerPredictions ==
    [text : LayerTexts,
     depth_interval : {None} \cup {Some(d) : d \in DepthIntervals},
     material_is_correct : {None},
     depth_interval_is_correct : {None}]

GroundTruthLayers ==
    [material_description : GroundTruthTexts,
     depth_interval : {[start |-> Some(0), end |-> Some(1)],
                       [start |-> Some(1), end |-> Some(2)]}]

SeqsUpTo(S, n) == UNION {[1 .. k -> S] : k \in 0 .. n}

\* stratigraphy.util.util.parse_text: keeps letters and digits, in lower case
RECURSIVE parse_text(_)
parse_text(text) ==
    IF text = <<>> THEN <<>>
    ELSE LET ch == Head(text)
             rest == parse_text(Tail(text))
         IN  IF ch = 0 THEN rest
             ELSE IF ch > 100 THEN <<ch - 100>> \o rest
             ELSE <<ch>> \o rest

\* One row of the longest-common-subsequence table of two strings: acc holds the
\* cells of the row computed so far, prev the row above.
RECURSIVE lcs_row(_, _, _, _)
lcs_row(prev, ch, b, acc) ==
    LET j == Len(acc)
    IN  IF j > Len(b) THEN acc
        ELSE lcs_row(prev, ch, b,
                     Append(acc, IF ch = b[j] THEN prev[j] + 1
                                 ELSE Max(prev[j + 1], acc[j])))

RECURSIVE lcs_rows(_, _, _, _)
lcs_rows(a, b, i, prev) ==
    IF i > Len(a) THEN prev[Len(b) + 1]
    ELSE lcs_rows(a, b, i + 1, lcs_row(prev, a[i], b, <<0>>))

lcs(a, b) == lcs_rows(a, b, 1, [k \in 1 .. (Len(b) + 1) |-> 0])

\* Levenshtein.ratio(a, b) as the fraction num / den: (lensum - distance) / lensum
\* with a substitution counted as two edits, that is 2 * lcs / lensum; 1 for two
\* empty strings.
levenshtein_ratio(a, b) ==
    IF Len(a) + Len(b) = 0 THEN [num |-> 1, den |-> 1]
    ELSE [num |-> 2 * lcs(a, b), den |-> Len(a) + Len(b)]

\* the ratios of all the texts of the model, computed once
ParsedTexts == {parse_text(t) : t \in LayerTexts}
ratio_table == [a \in ParsedTexts, b \in GroundTruthTexts |-> levenshtein_ratio(a, b)]

ratio(a, b) == ratio_table[a, b]

\* r1 > r2 for two fractions with positive denominators
ratio_greater(r1, r2) == r1.num * r2.den > r2.num * r1.den

\* Levenshtein.ratio(parsed_text, ground_truth_layer["material_description"]) >= 0.9
is_possible_match_or_equal(parsed_text, ground_truth_layer) ==
    LET r == ratio(parsed_text, ground_truth_layer.material_description)
    IN  10 * r.num >= 9 * r.den

\* Levenshtein.ratio(parsed_text, ground_truth_layer["material_description"]) > 0.9
is_possible_match(parsed_text, ground_truth_layer) ==
    ratio_greater(ratio(parsed_text, ground_truth_layer.material_description),
                  [num |-> 9, den |-> 10])

possible_matches(gt, parsed_text, unmatched) ==
    SelectSeq(unmatched, LAMBDA p : is_possible_match(parsed_text, gt[p]))

\* The body of the loop over possible_matches for one candidate:
\* "exact" (remove it and return True), "raise" (AttributeError on
\* layer.depth_interval.end.value with end None) or "next".
interval_check(layer, possible_match) ==
    LET start == possible_match.depth_interval.start
        end == possible_match.depth_interval.end
    IN  IF layer.depth_interval = None THEN "next"
        ELSE LET di == layer.depth_interval[1]
             IN  IF start = Some(0) /\ di.start = None
                 THEN IF di.end = None THEN "raise"
                      ELSE IF end = di.end THEN "exact"
                      ELSE "next"
                 ELSE IF di.start # None /\ di.end # None
                 THEN IF start = di.start /\ end = di.end THEN "exact" ELSE "next"
                 ELSE "next"

\* index in candidates of the first one whose check does not say "next", 0 if none
RECURSIVE first_decided(_, _, _, _)
first_decided(gt, layer, candidates, i) ==
    IF i > Len(candidates) THEN 0
    ELSE IF interval_check(layer, gt[candidates[i]]) # "next" THEN i
    ELSE first_decided(gt, layer, candidates, i + 1)

\* max(possible_matches, key=ratio): the first candidate of the highest ratio
RECURSIVE max_by_ratio(_, _, _, _, _)
max_by_ratio(gt, parsed_text, candidates, i, best) ==
    IF i > Len(candidates) THEN best
    ELSE LET r == ratio(parsed_text, gt[candidates[i]].material_description)
             rb == ratio(parsed_text, gt[best].material_description)
         IN  max_by_ratio(gt, parsed_text, candidates, i + 1,
                          IF ratio_greater(r, rb) THEN candidates[i] ELSE best)

\* index in the pool of the first entry equal (as a dict) to the entry at position p
RECURSIVE index_of_equal(_, _, _, _)
index_of_equal(gt, unmatched, p, j) ==
    IF j > Len(unmatched) THEN 0
    ELSE IF gt[unmatched[j]] = gt[p] THEN j
    ELSE index_of_equal(gt, unmatched, p, j + 1)

without_index(seq, j) ==
    [k \in 1 .. (Len(seq) - 1) |-> IF k < j THEN seq[k] ELSE seq[k + 1]]

\* a variant of list.remove that leaves the pool as it is
list_remove_nothing(gt, unmatched, p) ==
    [removed |-> unmatched[index_of_equal(gt, unmatched, p, 1)], pool |-> unmatched]

\* unmatched_layers.remove(possible_match): drops the first equal entry
list_remove(gt, unmatched, p) ==
    LET j == index_of_equal(gt, unmatched, p, 1)
    IN  [removed |-> unmatched[j], pool |-> without_index(unmatched, j)]

\* a variant that skips the exact-interval loop and always takes the best ratio
find_matching_layer_by_ratio_only(gt, layer, unmatched) ==
    LET parsed_text == parse_text(layer.text)
        candidates == possible_matches(gt, parsed_text, unmatched)
    IN  IF candidates = <<>>
        THEN [outcome |-> "none", depth |-> None, removed |-> 0, pool |-> unmatched]
        ELSE LET best == max_by_ratio(gt, parsed_text, candidates, 2, candidates[1])
                 rm == list_remove(gt, unmatched, best)
             IN  [outcome |-> "match", depth |-> Some(FALSE),
                  removed |-> rm.removed, pool |-> rm.pool]

\* a variant that reports the interval of the best-ratio match as correct
find_matching_layer_interval_always_correct(gt, layer, unmatched) ==
    LET parsed_text == parse_text(layer.text)
        candidates == possible_matches(gt, parsed_text, unmatched)
        i == first_decided(gt, layer, candidates, 1)
    IN  IF candidates = <<>>
        THEN [outcome |-> "none", depth |-> None, removed |-> 0, pool |-> unmatched]
        ELSE IF i # 0 /\ interval_check(layer, gt[candidates[i]]) = "raise"
        THEN [outcome |-> "raise", depth |-> None, removed |-> 0, pool |-> unmatched]
        ELSE IF i # 0
        THEN LET rm == list_remove(gt, unmatched, candidates[i])
             IN  [outcome |-> "match", depth |-> Some(TRUE),
                  removed |-> rm.removed, pool |-> rm.pool]
        ELSE LET best == max_by_ratio(gt, parsed_text, candidates, 2, candidates[1])
                 rm == list_remove(gt, unmatched, best)
             IN  [outcome |-> "match", depth |-> Some(TRUE),
                  removed |-> rm.removed, pool |-> rm.pool]

\* FilePredictions._find_matching_layer: the outcome ("match", "none", or "raise"),
\* depth_interval_is_correct, the position removed from the pool and the pool left.
find_matching_layer(gt, layer, unmatched) ==
    LET parsed_text == parse_text(layer.text)
        candidates == possible_matches(gt, parsed_text, unmatched)
        i == first_decided(gt, layer, candidates, 1)
    IN  IF candidates = <<>>
        THEN [outcome |-> "none", depth |-> None, removed |-> 0, pool |-> unmatched]
        ELSE IF i # 0 /\ interval_check(layer, gt[candidates[i]]) = "raise"
        THEN [outcome |-> "raise", depth |-> None, removed |-> 0, pool |-> unmatched]
        ELSE IF i # 0
        THEN LET rm == list_remove(gt, unmatched, candidates[i])
             IN  [outcome |-> "match", depth |-> Some(TRUE),
                  removed |-> rm.removed, pool |-> rm.pool]
        ELSE LET best == max_by_ratio(gt, parsed_text, candidates, 2, candidates[1])
                 rm == list_remove(gt, unmatched, best)
             IN  [outcome |-> "match", depth |-> Some(FALSE),
                  removed |-> rm.removed, pool |-> rm.pool]

\* the loop of evaluate_layers from layer i on: the flags of the layers, those
\* of the layers the loop did not get to (an exception ended it) left unset
RECURSIVE evaluate_layers_from(_, _, _, _)
evaluate_layers_from(gt, predicted, i, unmatched) ==
    IF i > Len(predicted) THEN <<>>
    ELSE LET found == find_matching_layer(gt, predicted[i], unmatched)
         IN  IF found.outcome = "raise"
             THEN [k \in 1 .. (Len(predicted) - i + 1) |->
                      [material_is_correct |-> None, depth_interval_is_correct |-> None]]
             ELSE <<[material_is_correct |-> Some(found.outcome = "match"),
                     depth_interval_is_correct |-> found.depth]>>
                  \o evaluate_layers_from(gt, predicted, i + 1, found.pool)

\* evaluate_layers as a function of the predicted layers and the ground truth
evaluate_layers(gt, predicted) ==
    evaluate_layers_from(gt, predicted, 1, [p \in 1 .. Len(gt) |-> p])

LayersIdle ==
    /\ layers = <<>>
    /\ ground_truth_layers = <<>>
    /\ unmatched_layers = <<>>
    /\ layer_index = 0
    /\ eval_pc = "created"
    /\ pool_before = <<>>
    /\ consumed = <<>>

\* a FilePredictions as constructed, and the ground truth it will be evaluated against
LayersInit ==
    /\ layers \in SeqsUpTo(LayerPredictions, MaxLayers)
    /\ ground_truth_layers \in SeqsUpTo(GroundTruthLayers, MaxGroundTruth)
    /\ unmatched_layers = <<>>
    /\ layer_index = 0
    /\ eval_pc = "created"
    /\ pool_before = <<>>
    /\ consumed = <<>>

\* unmatched_layers = ground_truth_layers.copy(), then the loop is entered
evaluate_layers_begin ==
    /\ eval_pc = "created"
    /\ unmatched_layers' = [p \in 1 .. Len(ground_truth_layers) |-> p]
    /\ eval_pc' = IF layers = <<>> THEN "done" ELSE "evaluating"
    /\ UNCHANGED <<layers, ground_truth_layers, layer_index, pool_before, consumed>>
    /\ UNCHANGED nonLayerVars

\* one iteration of "for layer in self.layers"
evaluate_layers_step ==
    /\ eval_pc = "evaluating"
    /\ LET n == layer_index + 1
           found == find_matching_layer(ground_truth_layers, layers[n], unmatched_layers)
       IN  /\ layer_index' = n
           /\ pool_before' = unmatched_layers
           /\ unmatched_layers' = found.pool
           /\ IF found.outcome = "raise"
              THEN /\ eval_pc' = "raised"
                   /\ UNCHANGED <<layers, consumed>>
              ELSE /\ eval_pc' = IF n = Len(layers) THEN "done" ELSE "evaluating"
                   /\ consumed' = Append(consumed, found.removed)
                   /\ layers' = [layers EXCEPT
                          ![n].material_is_correct = Some(found.outcome = "match"),
                          ![n].depth_interval_is_correct = found.depth]
    /\ UNCHANGED ground_truth_layers
    /\ UNCHANGED nonLayerVars

LayersNext ==
    \/ evaluate_layers_begin
    \/ evaluate_layers_step

(***************************************************************************)
(* Metadata evaluation: FilePredictions.evaluate_metadata                  *)
(***************************************************************************)

\* 2e6, 1e6, abs_tol=2 and the inverse of math.isclose's default rel_tol=1e-09
TwoMillion == 2000000
OneMillion == 1000000
AbsTol == 2
RelTolInverse == 1000000000

\* Coordinate values are fixed-point like the page coordinates: c stands for
\* c / Scale.  East: 600000, 2000000, 2600000, 2600002.5, 2600003.
PredictedEast == {1200000, 4000000, 5200000, 5200005, 5200006}
\* North: 1200000, 1200003
PredictedNorth == {2400000, 2400006}
\* E: 600000, 600000.5, 2000000, 2600000
GroundTruthEast == {1200000, 1200001, 4000000, 5200000}
\* N: 200000, 200000.5, 1200000
GroundTruthNorth == {400000, 400001, 2400000}

Coordinates == [east : PredictedEast, north : PredictedNorth]
GroundTruthCoordinates == [E : GroundTruthEast, N : GroundTruthNorth]

GroundwaterInformations == [depth : {1, 2}, elevation : {1}, date : {1}]

BoreholeMetaDatas ==
    [coordinates : {None} \cup {Some(c) : c \in Coordinates},
     groundwater_information : {None} \cup {Some(g) : g \in GroundwaterInformations}]

\* metadata_ground_truth: "coordinates" and "groundwater" may be missing (None);
\* "groundwater" is a list of entries
MetadataGroundTruths ==
    [coordinates : {None} \cup {Some(c) : c \in GroundTruthCoordinates},
     groundwater : {None} \cup {Some(l) : l \in SeqsUpTo(GroundwaterInformations, 2)}]

\* int(x) of a non-negative float, as a fixed-point number
int(c) == (c \div Scale) * Scale

\* a variant that compares with a strict inequality
isclose_strict(a, b) == Abs(a - b) < AbsTol * Scale

\* math.isclose(a, b, abs_tol=2): abs(a - b) <= max(rel_tol * max(|a|, |b|), abs_tol)
\* on fixed-point numbers whose difference is a whole number
isclose(a, b) ==
    \/ Abs(a - b) <= AbsTol * Scale
    \/ Abs(a - b) <= Max(Abs(a), Abs(b)) \div RelTolInverse

\* the ground truth moved into the frame of the prediction
reconciled_ground_truth(predicted, gt) ==
    IF predicted.east > TwoMillion * Scale /\ gt.E < TwoMillion * Scale
    THEN [east |-> int(gt.E) + TwoMillion * Scale, north |-> int(gt.N) + OneMillion * Scale]
    ELSE IF predicted.east < TwoMillion * Scale /\ gt.E > TwoMillion * Scale
    THEN [east |-> int(gt.E) - TwoMillion * Scale, north |-> int(gt.N) - OneMillion * Scale]
    ELSE [east |-> int(gt.E), north |-> int(gt.N)]

coordinates_correct(predicted, gt) ==
    LET ground_truth == reconciled_ground_truth(predicted, gt)
    IN  /\ isclose(int(predicted.east), ground_truth.east)
        /\ isclose(int(predicted.north), ground_truth.north)

\* GroundwaterInformation.is_extracted_*_correct of the ground-truth entry
is_extracted_depth_correct(gt_info, depth) == gt_info.depth = depth
is_extracted_elevation_correct(gt_info, elevation) == gt_info.elevation = elevation
is_extracted_date_correct(gt_info, date) == gt_info.date = date
is_extracted_information_correct(gt_info, info) ==
    /\ is_extracted_depth_correct(gt_info, info.depth)
    /\ is_extracted_elevation_correct(gt_info, info.elevation)
    /\ is_extracted_date_correct(gt_info, info.date)

\* d with d[key] = value
dict_set(d, key, value) ==
    [k \in DOMAIN d \cup {key} |-> IF k = key THEN value ELSE d[k]]

\* the coordinates part of evaluate_metadata (metadata is not None)
coordinates_part(md, gt, d) ==
    IF \/ md.coordinates = None
       \/ gt = None
       \/ gt[1].coordinates = None
    THEN dict_set(d, "coordinates", None)
    ELSE dict_set(d, "coordinates",
                  Some(coordinates_correct(md.coordinates[1], gt[1].coordinates[1])))

groundwater_undetermined(md, gt) ==
    \/ md.groundwater_information = None
    \/ gt = None
    \/ gt[1].groundwater = None

\* the groundwater part of evaluate_metadata, when the list has a first entry
groundwater_part(md, gt, d) ==
    IF groundwater_undetermined(md, gt)
    THEN dict_set(dict_set(dict_set(dict_set(d,
             "groundwater_information", None),
             "groundwater_information_depth", None),
             "groundwater_information_elevation", None),
             "groundwater_information_date", None)
    ELSE LET extracted == md.groundwater_information[1]
             gt_info == gt[1].groundwater[1][1]
         IN  dict_set(dict_set(dict_set(dict_set(d,
                 "groundwater_information",
                     Some(is_extracted_information_correct(gt_info, extracted))),
                 "groundwater_information_depth",
                     Some(is_extracted_depth_correct(gt_info, extracted.depth))),
                 "groundwater_information_elevation",
                     Some(is_extracted_elevation_correct(gt_info, extracted.elevation))),
                 "groundwater_information_date",
                     Some(is_extracted_date_correct(gt_info, extracted.date)))

MetaIdle ==
    /\ metadata = None
    /\ metadata_ground_truth = None
    /\ metadata_is_correct = << >>
    /\ meta_pc = "created"

\* FilePredictions(..., metadata=None by default) and the ground truth to come
MetaInit ==
    /\ metadata \in {None} \cup {Some(m) : m \in BoreholeMetaDatas}
    /\ metadata_ground_truth \in {None} \cup {Some(g) : g \in MetadataGroundTruths}
    /\ metadata_is_correct = << >>
    /\ meta_pc = "created"

evaluate_metadata ==
    /\ meta_pc = "created"
    /\ IF metadata = None
       THEN \* self.metadata.coordinates on None
            /\ meta_pc' = "AttributeError"
            /\ UNCHANGED metadata_is_correct
       ELSE LET with_coordinates ==
                    coordinates_part(metadata[1], metadata_ground_truth, metadata_is_correct)
            IN  IF /\ ~groundwater_undetermined(metadata[1], metadata_ground_truth)
                   /\ metadata_ground_truth[1].groundwater[1] = << >>
                THEN \* metadata_ground_truth["groundwater"][0] on an empty list
                     /\ meta_pc' = "IndexError"
                     /\ metadata_is_correct' = with_coordinates
                ELSE /\ meta_pc' = "done"
                     /\ metadata_is_correct' =
                            groundwater_part(metadata[1], metadata_ground_truth,
                                             with_coordinates)
    /\ UNCHANGED <<metadata, metadata_ground_truth>>
    /\ UNCHANGED nonMetaVars

MetaNext == evaluate_metadata

(***************************************************************************)
(* Metrics                                                                 *)
(***************************************************************************)

\* Bound of the metrics model: tp, fp and fn range over 0 .. MaxCount.
MaxCount == 4

\* A float is modelled by the fraction it stands for, in lowest terms; a
\* denominator of 0 marks the result of a division by zero (ZeroDivisionError).
RECURSIVE gcd(_, _)
gcd(a, b) == IF b = 0 THEN a ELSE gcd(b, a % b)

fraction(n, d) ==
    IF d = 0 THEN [num |-> n, den |-> 0]
    ELSE LET g == gcd(n, d) IN [num |-> n \div g, den |-> d \div g]

zero == [num |-> 0, den |-> 1]

frac_add(a, b) == fraction(a.num * b.den + b.num * a.den, a.den * b.den)
frac_mul(a, b) == fraction(a.num * b.num, a.den * b.den)
frac_div(a, b) == fraction(a.num * b.den, a.den * b.num)
frac_positive(a) == a.num > 0 /\ a.den > 0

precision(m) == IF m.tp + m.fp > 0 THEN fraction(m.tp, m.tp + m.fp) ELSE zero

recall(m) == IF m.tp + m.fn > 0 THEN fraction(m.tp, m.tp + m.fn) ELSE zero

\* a variant that forgets the factor 2
f1_without_factor(m) ==
    IF frac_positive(frac_add(precision(m), recall(m)))
    THEN frac_div(frac_mul(precision(m), recall(m)), frac_add(precision(m), recall(m)))
    ELSE zero

f1(m) ==
    IF frac_positive(frac_add(precision(m), recall(m)))
    THEN frac_div(frac_mul(frac_mul(fraction(2, 1), precision(m)), recall(m)),
                  frac_add(precision(m), recall(m)))
    ELSE zero

MetricsIdle ==
    /\ metrics = [tp |-> 0, fp |-> 0, fn |-> 0]
    /\ scores = None

\* Metrics(tp, fp, fn)
MetricsInit ==
    /\ metrics \in [tp : 0 .. MaxCount, fp : 0 .. MaxCount, fn : 0 .. MaxCount]
    /\ scores = None

\* Metrics.to_json: reads the three properties
to_json ==
    /\ scores = None
    /\ scores' = Some([precision |-> precision(metrics),
                       recall |-> recall(metrics),
                       f1 |-> f1(metrics)])
    /\ UNCHANGED metrics
    /\ UNCHANGED nonMetricsVars

MetricsNext == to_json

(***************************************************************************)
(* Corpus rollup: Metrics.from_metric_list, OverallBoreholeMetadataMetrics *)
(***************************************************************************)

\* Bound of the rollup model: the files appended to all instances together.
MaxFiles == 2

\* two OverallBoreholeMetadataMetrics objects
Instances == {1, 2}

ElevationMetrics == {[tp |-> 2, fp |-> 0, fn |-> 0], [tp |-> 1, fp |-> 1, fn |-> 0]}
CoordinatesMetrics == {[tp |-> 1, fp |-> 0, fn |-> 0], [tp |-> 0, fp |-> 1, fn |-> 1]}
Filenames == {"a.pdf", "b.pdf"}

\* FileBoreholeMetadataMetrics(elevation_metrics, coordinates_metrics, filename)
FileBoreholeMetadataMetrics ==
    [elevation_metrics : ElevationMetrics,
     coordinates_metrics : CoordinatesMetrics,
     filename : Filenames]

\* sum([...]) of a list of integers: a left fold starting at 0
RECURSIVE sum(_)
sum(values) ==
    IF values = <<>> THEN 0
    ELSE sum(SubSeq(values, 1, Len(values) - 1)) + values[Len(values)]

\* a variant that sums fp into fn
from_metric_list_fn_from_fp(metric_list) ==
    [tp |-> sum([i \in 1 .. Len(metric_list) |-> metric_list[i].tp]),
     fp |-> sum([i \in 1 .. Len(metric_list) |-> metric_list[i].fp]),
     fn |-> sum([i \in 1 .. Len(metric_list) |-> metric_list[i].fp])]

\* Metrics.from_metric_list
from_metric_list(metric_list) ==
    [tp |-> sum([i \in 1 .. Len(metric_list) |-> metric_list[i].tp]),
     fp |-> sum([i \in 1 .. Len(metric_list) |-> metric_list[i].fp]),
     fn |-> sum([i \in 1 .. Len(metric_list) |-> metric_list[i].fn])]

\* BoreholeMetadataMetrics.to_json: the two Metrics.to_json dicts merged
metadata_to_json(elevation_metrics, coordinates_metrics) ==
    [elevation_precision |-> precision(elevation_metrics),
     elevation_recall |-> recall(elevation_metrics),
     elevation_f1 |-> f1(elevation_metrics),
     coordinate_precision |-> precision(coordinates_metrics),
     coordinate_recall |-> recall(coordinates_metrics),
     coordinate_f1 |-> f1(coordinates_metrics)]

\* FileBoreholeMetadataMetrics.get_document_level_metrics: a one-row DataFrame
file_document_level_metrics(file) ==
    [columns |-> <<"document_name", "elevation", "coordinate">>,
     rows |-> <<[document_name |-> file.filename,
                 elevation |-> f1(file.elevation_metrics),
                 coordinate |-> f1(file.coordinates_metrics)]>>]

\* the rows of the frames from position i on, one after the other
RECURSIVE concat_rows(_, _)
concat_rows(frames, i) ==
    IF i > Len(frames) THEN <<>>
    ELSE frames[i].rows \o concat_rows(frames, i + 1)

\* pd.concat(frames, ignore_index=True) of frames with the same columns; pandas
\* raises ValueError ("No objects to concatenate") for an empty list
concat(frames) ==
    IF frames = <<>> THEN [raised |-> "ValueError", frame |-> None]
    ELSE [raised |-> "none",
          frame |-> Some([columns |-> frames[1].columns,
                          rows |-> concat_rows(frames, 1)])]

no_metrics == [tp |-> 0, fp |-> 0, fn |-> 0]

OverallIdle ==
    /\ borehole_metadata_metrics = [inst \in Instances |-> <<>>]
    /\ overall_call = [op |-> "init", instance |-> 1]
    /\ summed = [elevation_metrics |-> no_metrics, coordinates_metrics |-> no_metrics]
    /\ overall_returned = None
    /\ overall_raised = "none"

\* OverallBoreholeMetadataMetrics(): self.borehole_metadata_metrics = []
OverallInit == OverallIdle

FilesAppended ==
    sum([inst \in 1 .. Cardinality(Instances) |-> Len(borehole_metadata_metrics[inst])])

\* instance.borehole_metadata_metrics.append(file)
append(inst, file) ==
    /\ FilesAppended < MaxFiles
    /\ borehole_metadata_metrics' =
           [borehole_metadata_metrics EXCEPT ![inst] = Append(@, file)]
    /\ overall_call' = [op |-> "append", instance |-> inst]
    /\ overall_returned' = None
    /\ overall_raised' = "none"
    /\ UNCHANGED summed
    /\ UNCHANGED nonOverallVars

get_cumulated_metrics(inst) ==
    LET files == borehole_metadata_metrics[inst]
        elevation_metrics ==
            from_metric_list([i \in 1 .. Len(files) |-> files[i].elevation_metrics])
        coordinates_metrics ==
            from_metric_list([i \in 1 .. Len(files) |-> files[i].coordinates_metrics])
    IN  /\ overall_call' = [op |-> "get_cumulated_metrics", instance |-> inst]
        /\ summed' = [elevation_metrics |-> elevation_metrics,
                      coordinates_metrics |-> coordinates_metrics]
        /\ overall_returned' = Some(metadata_to_json(elevation_metrics, coordinates_metrics))
        /\ overall_raised' = "none"
        /\ UNCHANGED borehole_metadata_metrics
        /\ UNCHANGED nonOverallVars

get_document_level_metrics(inst) ==
    LET files == borehole_metadata_metrics[inst]
        frames == [i \in 1 .. Len(files) |-> file_document_level_metrics(files[i])]
        concatenated == concat(frames)
    IN  /\ overall_call' = [op |-> "get_document_level_metrics", instance |-> inst]
        /\ overall_returned' = concatenated.frame
        /\ overall_raised' = concatenated.raised
        /\ UNCHANGED <<borehole_metadata_metrics, summed>>
        /\ UNCHANGED nonOverallVars

OverallNext ==
    \/ \E inst \in Instances, file \in FileBoreholeMetadataMetrics : append(inst, file)
    \/ \E inst \in Instances : get_cumulated_metrics(inst)
    \/ \E inst \in Instances : get_document_level_metrics(inst)

(***************************************************************************)
(* Duplicate layer detection: remove_duplicate_layers                      *)
(***************************************************************************)

\* Bound of the duplicate detection model: the layers of the current page.
MaxCandidates == 5

\* 0.62 in hundredths, and the number of consecutive non-duplicates that ends
\* the search
Threshold == 62
RunLimit == 3

\* rect[1] of the layers of a page as the caller lists them: from the top of
\* the page down, from the bottom up, all at one height, or alternating
TopOrders == {"ascending", "descending", "equal", "alternating"}

top_of(order, i, n) ==
    IF order = "ascending" THEN i
    ELSE IF order = "descending" THEN n + 1 - i
    ELSE IF order = "equal" THEN 1
    ELSE 1 + (i % 2)

\* What template matching gives for the image of a layer: the maximum of the
\* correlation with the previous page in hundredths, or None when
\* cv2.matchTemplate raises cv2.error.
Matches == {None, Some(62), Some(63)}

\* the layers of a page: layer i of the argument has id i
LayerLists ==
    UNION {{[i \in 1 .. n |-> [id |-> i, top |-> top_of(order, i, n), match |-> matches[i]]] :
                order \in TopOrders, matches \in [1 .. n -> Matches]} :
           n \in 0 .. MaxCandidates}

\* one step of sorted(): layer put behind the layers whose top is not larger
RECURSIVE insert_sorted(_, _)
insert_sorted(seq, layer) ==
    IF seq = <<>> THEN <<layer>>
    ELSE IF seq[Len(seq)].top <= layer.top THEN Append(seq, layer)
    ELSE Append(insert_sorted(SubSeq(seq, 1, Len(seq) - 1), layer), seq[Len(seq)])

\* sorted(layer_predictions, key=rect[1]): ascending and stable
RECURSIVE sorted(_)
sorted(seq) ==
    IF seq = <<>> THEN <<>>
    ELSE insert_sorted(sorted(SubSeq(seq, 1, Len(seq) - 1)), seq[Len(seq)])

\* a variant that lets the fault count as a full match
img_template_probablility_match_fault_as_one(layer) ==
    IF layer.match = None THEN 100 ELSE layer.match[1]

\* np.max(cv2.matchTemplate(...)), 0 on cv2.error
img_template_probablility_match(layer) ==
    IF layer.match = None THEN 0 ELSE layer.match[1]

\* a variant that drops the duplicated layer as well
slice_after(seq, index) == SubSeq(seq, index + 2, Len(seq))

\* seq[index:] with index counted from 0
slice_from(seq, index) == SubSeq(seq, index + 1, Len(seq))

\* a variant that stops after one non-duplicate more
search_ended_late(count) == count >= RunLimit + 1

\* count_consecutive_non_duplicate_layers >= 3: the loop is left
search_ended(count) == count >= RunLimit

DupIdle ==
    /\ layer_predictions = <<>>
    /\ sorted_layers = <<>>
    /\ duplicated_layer_index = 0
    /\ count_consecutive_non_duplicate_layers = 0
    /\ scan_index = 0
    /\ scored = <<>>
    /\ dup_pc = "called"
    /\ dup_returned = <<>>

\* remove_duplicate_layers is called with the layers of a page
DupInit ==
    /\ layer_predictions \in LayerLists
    /\ sorted_layers = <<>>
    /\ duplicated_layer_index = 0
    /\ count_consecutive_non_duplicate_layers = 0
    /\ scan_index = 0
    /\ scored = <<>>
    /\ dup_pc = "called"
    /\ dup_returned = <<>>

\* the statements before the loop
remove_duplicate_layers_begin ==
    /\ dup_pc = "called"
    /\ sorted_layers' = sorted(layer_predictions)
    /\ duplicated_layer_index' = 0
    /\ count_consecutive_non_duplicate_layers' = 0
    /\ scan_index' = 0
    /\ dup_pc' = "scanning"
    /\ UNCHANGED <<layer_predictions, scored, dup_returned>>
    /\ UNCHANGED nonDupVars

\* one iteration of the loop that does not break
remove_duplicate_layers_step ==
    /\ dup_pc = "scanning"
    /\ scan_index < Len(sorted_layers)
    /\ ~search_ended(count_consecutive_non_duplicate_layers)
    /\ LET layer == sorted_layers[scan_index + 1]
       IN  IF img_template_probablility_match(layer) > Threshold
           THEN /\ duplicated_layer_index' = scan_index
                /\ count_consecutive_non_duplicate_layers' = 0
           ELSE /\ count_consecutive_non_duplicate_layers' =
                       count_consecutive_non_duplicate_layers + 1
                /\ UNCHANGED duplicated_layer_index
    /\ scored' = Append(scored, scan_index)
    /\ scan_index' = scan_index + 1
    /\ UNCHANGED <<layer_predictions, sorted_layers, dup_pc, dup_returned>>
    /\ UNCHANGED nonDupVars

\* the loop is left, by break or at the end of the list, and the slice is returned
remove_duplicate_layers_return ==
    /\ dup_pc = "scanning"
    /\ \/ scan_index >= Len(sorted_layers)
       \/ search_ended(count_consecutive_non_duplicate_layers)
    /\ dup_returned' = slice_from(sorted_layers, duplicated_layer_index)
    /\ dup_pc' = "returned"
    /\ UNCHANGED <<layer_predictions, sorted_layers, duplicated_layer_index,
                   count_consecutive_non_duplicate_layers, scan_index, scored>>
    /\ UNCHANGED nonDupVars

DupNext ==
    \/ remove_duplicate_layers_begin
    \/ remove_duplicate_layers_step
    \/ remove_duplicate_layers_return

(***************************************************************************)
(* Specifications                                                          *)
(***************************************************************************)

InitIndex == IndexInit /\ LayersIdle /\ MetaIdle /\ MetricsIdle /\ OverallIdle /\ DupIdle
SpecIndex == InitIndex /\ [][IndexNext]_vars

InitLayers == LayersInit /\ IndexInit /\ MetaIdle /\ MetricsIdle /\ OverallIdle /\ DupIdle
SpecLayers == InitLayers /\ [][LayersNext]_vars

InitMeta == MetaInit /\ IndexInit /\ LayersIdle /\ MetricsIdle /\ OverallIdle /\ DupIdle
SpecMeta == InitMeta /\ [][MetaNext]_vars

InitMetrics == MetricsInit /\ IndexInit /\ LayersIdle /\ MetaIdle /\ OverallIdle /\ DupIdle
SpecMetrics == InitMetrics /\ [][MetricsNext]_vars

InitOverall == OverallInit /\ IndexInit /\ LayersIdle /\ MetaIdle /\ MetricsIdle /\ DupIdle
SpecOverall == InitOverall /\ [][OverallNext]_vars

InitDup == DupInit /\ IndexInit /\ LayersIdle /\ MetaIdle /\ MetricsIdle /\ OverallIdle
SpecDup == InitDup /\ [][DupNext]_vars

(***************************************************************************)
(* Properties of the spatial line index                                    *)
(***************************************************************************)

\* the other indexed lines with an endpoint (as given, not rounded) in the box
ExactNeighbours(hm, line_key, tol) ==
    LET bb == BoundingBox(hm[line_key], tol)
    IN  {k \in DOMAIN hm \ {line_key} :
            \/ bb_contains(bb, hm[k].start.x, hm[k].start.y)
            \/ bb_contains(bb, hm[k].end.x, hm[k].end.y)}

\* the other indexed lines with a rounded endpoint in the box
RoundedNeighbours(hm, line_key, tol) ==
    LET bb == BoundingBox(hm[line_key], tol)
        in_bb(point) == bb_contains(bb, round(point.x) * Scale, round(point.y) * Scale)
    IN  {k \in DOMAIN hm \ {line_key} : in_bb(hm[k].start) \/ in_bb(hm[k].end)}

QueriedAfterAddsOnly ==
    /\ last_op.op = "neighbouring_lines"
    /\ ~remove_called
    /\ last_op.key \in DOMAIN hashmap

\* C1 (as stated): after add operations only, neighbouring_lines(key of L, tol)
\* returns exactly the other indexed lines that have an endpoint inside the
\* bounding box of L expanded by tol, and never L's own key.
C1_ExactNeighbours ==
    QueriedAfterAddsOnly =>
        /\ last_op.key \notin returned
        /\ returned = ExactNeighbours(hashmap, last_op.key, last_op.tol)

\* C1 (amended): after add operations only, neighbouring_lines(key of L, tol)
\* never returns L's own key and returns exactly the other indexed lines that
\* have an endpoint whose coordinates, rounded to the nearest integer, lie in
\* the bounding box of L's (unrounded) endpoints expanded by tol.
C1_RoundedNeighbours ==
    QueriedAfterAddsOnly =>
        /\ last_op.key \notin returned
        /\ returned = RoundedNeighbours(hashmap, last_op.key, last_op.tol)

\* a query whose answer differs from the exact one: a neighbour is returned
\* although none of its endpoints lies in the box
C1_Witness ==
    /\ QueriedAfterAddsOnly
    /\ returned # {}
    /\ ExactNeighbours(hashmap, last_op.key, last_op.tol) = {}

\* the index that a sequence of add calls builds for the lines of hm
Rebuilt(hm) ==
    LET ends(k) == {coordinates(hm[k].start), coordinates(hm[k].end)}
    IN  [c \in UNION {ends(k) : k \in DOMAIN hm} |-> {k \in DOMAIN hm : c \in ends(k)}]

\* C2: remove(key) of a line that was added completes without error, and
\* afterwards the index behaves as if the line had never been added: the key is
\* unknown (a further remove is a no-op, its neighbours are empty) and every
\* other key has the neighbours it has in the index built without that line.
C2_RemoveAsNeverAdded ==
    (last_op.op = "remove" /\ last_op.key < next_key) =>
        /\ raised = "none"
        /\ last_op.key \notin DOMAIN hashmap
        /\ \A tol \in Tols :
              /\ neighbouring_lines_of(hashmap, qtree, last_op.key, tol) = {}
              /\ \A k \in DOMAIN hashmap :
                    neighbouring_lines_of(hashmap, qtree, k, tol)
                        = neighbouring_lines_of(hashmap, Rebuilt(hashmap), k, tol)

\* C3: a key is in the key-to-line map iff it is registered at the rounded
\* start point and at the rounded end point of its line, and no point's
\* key-set holds a key that is not in the map.
C3_EndpointsRegistered ==
    /\ \A k \in DOMAIN hashmap :
          /\ coordinates(hashmap[k].start) \in DOMAIN qtree
          /\ k \in qtree[coordinates(hashmap[k].start)]
          /\ coordinates(hashmap[k].end) \in DOMAIN qtree
          /\ k \in qtree[coordinates(hashmap[k].end)]
    /\ \A c \in DOMAIN qtree : qtree[c] \subseteq DOMAIN hashmap

(***************************************************************************)
(* Properties of the layer evaluation                                      *)
(***************************************************************************)

\* an iteration of the loop of evaluate_layers has run; LastLayer is its layer
Attempted == eval_pc \in {"evaluating", "done", "raised"} /\ layer_index >= 1
LastLayer == layers[layer_index]

SeqRange(seq) == {seq[k] : k \in 1 .. Len(seq)}

\* the positions of the pool whose text has a similarity above 0.9 with the layer's
CandidatesOf(layer, pool) ==
    {p \in SeqRange(pool) :
        LET r == ratio(parse_text(layer.text), ground_truth_layers[p].material_description)
        IN  10 * r.num > 9 * r.den}

\* the ground-truth interval is the predicted one, an absent predicted start
\* standing for 0
ExactInterval(layer, g) ==
    /\ layer.depth_interval # None
    /\ LET di == layer.depth_interval[1]
       IN  \/ /\ g.depth_interval.start = Some(0)
              /\ di.start = None
              /\ di.end # None
              /\ g.depth_interval.end = di.end
           \/ /\ di.start # None
              /\ di.end # None
              /\ g.depth_interval.start = di.start
              /\ g.depth_interval.end = di.end

RatioTo(layer, p) ==
    ratio(parse_text(layer.text), ground_truth_layers[p].material_description)

\* the pool lost exactly the position the last layer consumed
PoolLostConsumed ==
    /\ Len(consumed) = layer_index
    /\ consumed[layer_index] \in SeqRange(pool_before)
    /\ unmatched_layers = SelectSeq(pool_before, LAMBDA p : p # consumed[layer_index])

MaterialCorrect == {i \in 1 .. Len(layers) : layers[i].material_is_correct = Some(TRUE)}

\* C4: the material-correct layers consumed pairwise different ground-truth
\* entries, so there are never more of them than ground-truth layers.
C4_ConsumedAtMostOnce ==
    /\ \A i \in MaterialCorrect :
          /\ i <= Len(consumed)
          /\ consumed[i] \in 1 .. Len(ground_truth_layers)
          /\ consumed[i] \notin SeqRange(unmatched_layers)
          /\ \A j \in MaterialCorrect : i # j => consumed[i] # consumed[j]
    /\ Cardinality(MaterialCorrect) <= Len(ground_truth_layers)

\* two predicted layers that both match the only ground-truth entry: the
\* first one got it, the second one is left without
C4_Witness ==
    /\ eval_pc = "done"
    /\ Len(layers) = 2
    /\ Len(ground_truth_layers) = 1
    /\ CandidatesOf(layers[1], <<1>>) = {1}
    /\ CandidatesOf(layers[2], <<1>>) = {1}
    /\ layers[1].material_is_correct = Some(TRUE)
    /\ layers[2].material_is_correct = Some(FALSE)

\* C5: when some candidate has exactly the predicted interval, the layer is
\* material- and interval-correct and an exact-interval candidate is the entry
\* removed from the pool, whatever the similarity ratios of the others.
C5_ExactIntervalWins ==
    (/\ Attempted
     /\ \E p \in CandidatesOf(LastLayer, pool_before) :
            ExactInterval(LastLayer, ground_truth_layers[p]))
    => /\ eval_pc # "raised"
       /\ LastLayer.material_is_correct = Some(TRUE)
       /\ LastLayer.depth_interval_is_correct = Some(TRUE)
       /\ PoolLostConsumed
       /\ consumed[layer_index] \in CandidatesOf(LastLayer, pool_before)
       /\ ExactInterval(LastLayer, ground_truth_layers[consumed[layer_index]])

\* an exact-interval candidate was consumed although another candidate has a
\* strictly higher similarity ratio
C5_Witness ==
    /\ Attempted
    /\ eval_pc # "raised"
    /\ LastLayer.depth_interval_is_correct = Some(TRUE)
    /\ \E q \in CandidatesOf(LastLayer, pool_before) :
          ratio_greater(RatioTo(LastLayer, q), RatioTo(LastLayer, consumed[layer_index]))

\* C6: with candidates but no exact-interval candidate the layer is
\* material-correct and interval-incorrect, and the entry removed from the pool
\* is the candidate of the highest similarity ratio.
C6_BestRatioOtherwise ==
    (/\ Attempted
     /\ CandidatesOf(LastLayer, pool_before) # {}
     /\ \A p \in CandidatesOf(LastLayer, pool_before) :
            ~ExactInterval(LastLayer, ground_truth_layers[p]))
    => /\ eval_pc # "raised"
       /\ LastLayer.material_is_correct = Some(TRUE)
       /\ LastLayer.depth_interval_is_correct = Some(FALSE)
       /\ PoolLostConsumed
       /\ consumed[layer_index] \in CandidatesOf(LastLayer, pool_before)
       /\ \A q \in CandidatesOf(LastLayer, pool_before) :
             ~ratio_greater(RatioTo(LastLayer, q), RatioTo(LastLayer, consumed[layer_index]))

\* C7: without a candidate of similarity above 0.9 in the pool the layer is
\* material-incorrect with an undefined interval flag, nothing is raised and
\* the pool stays as it was.
C7_NoCandidate ==
    (Attempted /\ CandidatesOf(LastLayer, pool_before) = {})
    => /\ eval_pc # "raised"
       /\ LastLayer.material_is_correct = Some(FALSE)
       /\ LastLayer.depth_interval_is_correct = None
       /\ unmatched_layers = pool_before
       /\ consumed[layer_index] = 0

\* no candidate, although the pool holds an entry of similarity exactly 0.9
C7_Witness ==
    /\ Attempted
    /\ CandidatesOf(LastLayer, pool_before) = {}
    /\ LastLayer.material_is_correct = Some(FALSE)
    /\ \E p \in SeqRange(pool_before) :
          10 * RatioTo(LastLayer, p).num = 9 * RatioTo(LastLayer, p).den

(***************************************************************************)
(* Properties of the metadata evaluation                                   *)
(***************************************************************************)

MetadataEvaluated == meta_pc # "created"

IsNull(key) == key \in DOMAIN metadata_is_correct /\ metadata_is_correct[key] = None

PredictionLacksCoordinates == metadata = None \/ metadata[1].coordinates = None
GroundTruthLacksCoordinates ==
    metadata_ground_truth = None \/ metadata_ground_truth[1].coordinates = None

PredictionLacksGroundwater == metadata = None \/ metadata[1].groundwater_information = None
GroundTruthLacksGroundwater ==
    \/ metadata_ground_truth = None
    \/ metadata_ground_truth[1].groundwater = None
    \/ metadata_ground_truth[1].groundwater = Some(<< >>)

\* C8: evaluate_metadata raises nothing and records null whenever data is
\* missing on either side: for the coordinates if the prediction (or its whole
\* metadata) or the ground truth has none, and for all four groundwater signals
\* if the prediction has no groundwater information or the ground truth has no
\* groundwater entry.
C8_MissingDataIsNull ==
    MetadataEvaluated =>
        /\ (PredictionLacksCoordinates \/ GroundTruthLacksCoordinates)
              => (meta_pc = "done" /\ IsNull("coordinates"))
        /\ (PredictionLacksGroundwater \/ GroundTruthLacksGroundwater)
              => /\ meta_pc = "done"
                 /\ IsNull("groundwater_information")
                 /\ IsNull("groundwater_information_depth")
                 /\ IsNull("groundwater_information_elevation")
                 /\ IsNull("groundwater_information_date")

\* the whole number a fixed-point value truncates to
Truncated(c) == c \div Scale

\* the claim's rule: shift the ground truth into the predicted frame, then
\* compare the truncated values with tolerance 2 on both axes
ClaimedCoordinatesCorrect(predicted, gt) ==
    LET up == predicted.east > 2000000 * Scale /\ gt.E < 2000000 * Scale
        down == predicted.east < 2000000 * Scale /\ gt.E > 2000000 * Scale
        shift_east == IF up THEN 2000000 ELSE IF down THEN -2000000 ELSE 0
        shift_north == IF up THEN 1000000 ELSE IF down THEN -1000000 ELSE 0
    IN  /\ Abs(Truncated(predicted.east) - (Truncated(gt.E) + shift_east)) <= 2
        /\ Abs(Truncated(predicted.north) - (Truncated(gt.N) + shift_north)) <= 2

BothHaveCoordinates ==
    /\ "coordinates" \in DOMAIN metadata_is_correct
    /\ ~PredictionLacksCoordinates
    /\ ~GroundTruthLacksCoordinates

\* C9: with coordinates on both sides, the recorded correctness is true iff,
\* after moving the ground truth into the predicted frame, the truncated east
\* values and the truncated north values each differ by at most 2.
C9_CoordinatesWithinTolerance ==
    BothHaveCoordinates =>
        metadata_is_correct["coordinates"] =
            Some(ClaimedCoordinatesCorrect(metadata[1].coordinates[1],
                                           metadata_ground_truth[1].coordinates[1]))

\* a ground truth in the other frame, reconciled and found correct with a
\* truncated difference of exactly 2
C9_Witness ==
    /\ BothHaveCoordinates
    /\ metadata[1].coordinates[1].east > 2000000 * Scale
    /\ metadata_ground_truth[1].coordinates[1].E < 2000000 * Scale
    /\ Truncated(metadata[1].coordinates[1].east)
          - Truncated(metadata_ground_truth[1].coordinates[1].E) = 2000002
    /\ metadata_is_correct["coordinates"] = Some(TRUE)

(***************************************************************************)
(* Properties of Metrics                                                   *)
(***************************************************************************)

\* the fraction a equals n / d
IsFraction(a, n, d) == a.den > 0 /\ a.num * d = n * a.den

\* C10: precision = tp/(tp+fp), recall = tp/(tp+fn), F1 = 2tp/(2tp+fp+fn) when
\* tp > 0 and each is 0 when its denominator is 0 (F1 = 0 when tp = 0); no
\* division by zero; Metrics(0,0,0) gives 0, 0, 0 and Metrics(3,1,1) gives
\* 3/4 for all three.
C10_PrecisionRecallF1 ==
    scores # None =>
        LET tp == metrics.tp
            fp == metrics.fp
            fn == metrics.fn
            got == scores[1]
        IN  /\ got.precision.den > 0 /\ got.recall.den > 0 /\ got.f1.den > 0
            /\ IF tp + fp = 0 THEN got.precision = zero
               ELSE IsFraction(got.precision, tp, tp + fp)
            /\ IF tp + fn = 0 THEN got.recall = zero
               ELSE IsFraction(got.recall, tp, tp + fn)
            /\ IF tp = 0 THEN got.f1 = zero
               ELSE IsFraction(got.f1, 2 * tp, 2 * tp + fp + fn)
            /\ (tp = 3 /\ fp = 1 /\ fn = 1) =>
                  /\ IsFraction(got.precision, 3, 4)
                  /\ IsFraction(got.recall, 3, 4)
                  /\ IsFraction(got.f1, 3, 4)

\* Metrics(3, 1, 1) scored 3/4
C10_Witness ==
    /\ metrics = [tp |-> 3, fp |-> 1, fn |-> 1]
    /\ scores # None
    /\ scores[1].f1 = [num |-> 3, den |-> 4]

(***************************************************************************)
(* Properties of the corpus rollup                                         *)
(***************************************************************************)

\* the files of the instance the last call was made on
CalledFiles == borehole_metadata_metrics[overall_call.instance]

ElevationsOf(files) == [i \in 1 .. Len(files) |-> files[i].elevation_metrics]
CoordinatesOf(files) == [i \in 1 .. Len(files) |-> files[i].coordinates_metrics]

\* the total of one count over the Metrics of a list, from position i on
RECURSIVE TotalFrom(_, _, _)
TotalFrom(metric_list, field, i) ==
    IF i > Len(metric_list) THEN 0
    ELSE metric_list[i][field] + TotalFrom(metric_list, field, i + 1)

ElementWiseSum(metric_list) ==
    [tp |-> TotalFrom(metric_list, "tp", 1),
     fp |-> TotalFrom(metric_list, "fp", 1),
     fn |-> TotalFrom(metric_list, "fn", 1)]

Reordered(metric_list, perm) == [i \in 1 .. Len(metric_list) |-> metric_list[perm[i]]]

\* from_metric_list gives the same Metrics for every order of the list and for
\* the two-element list of the rolled-up halves of every split of it
OrderAndGroupingIrrelevant(metric_list) ==
    /\ \A perm \in Permutations(1 .. Len(metric_list)) :
          from_metric_list(Reordered(metric_list, perm)) = from_metric_list(metric_list)
    /\ \A k \in 0 .. Len(metric_list) :
          from_metric_list(<<from_metric_list(SubSeq(metric_list, 1, k)),
                             from_metric_list(SubSeq(metric_list, k + 1, Len(metric_list)))>>)
              = from_metric_list(metric_list)

\* the three scores are the ones of the counts of m
ScoresOfCounts(got_precision, got_recall, got_f1, m) ==
    /\ IF m.tp + m.fp = 0 THEN got_precision = zero
       ELSE IsFraction(got_precision, m.tp, m.tp + m.fp)
    /\ IF m.tp + m.fn = 0 THEN got_recall = zero
       ELSE IsFraction(got_recall, m.tp, m.tp + m.fn)
    /\ IF m.tp = 0 THEN got_f1 = zero
       ELSE IsFraction(got_f1, 2 * m.tp, 2 * m.tp + m.fp + m.fn)

\* C11: from_metric_list returns the element-wise sum of tp, fp and fn of its
\* list (Metrics(0,0,0) for the empty list), whatever the order of the list and
\* whether or not sub-lists were rolled up first; get_cumulated_metrics sums the
\* elevation metrics and the coordinate metrics of the instance's files
\* independently and reports precision, recall and F1 of the summed counts.
C11_SumOfCounts ==
    overall_call.op = "get_cumulated_metrics" =>
        LET elevations == ElevationsOf(CalledFiles)
            coordinates_list == CoordinatesOf(CalledFiles)
            got == overall_returned[1]
        IN  /\ overall_raised = "none"
            /\ overall_returned # None
            /\ summed.elevation_metrics = ElementWiseSum(elevations)
            /\ summed.coordinates_metrics = ElementWiseSum(coordinates_list)
            /\ CalledFiles = <<>> =>
                  /\ summed.elevation_metrics = [tp |-> 0, fp |-> 0, fn |-> 0]
                  /\ summed.coordinates_metrics = [tp |-> 0, fp |-> 0, fn |-> 0]
            /\ OrderAndGroupingIrrelevant(elevations)
            /\ OrderAndGroupingIrrelevant(coordinates_list)
            /\ ScoresOfCounts(got.elevation_precision, got.elevation_recall,
                              got.elevation_f1, ElementWiseSum(elevations))
            /\ ScoresOfCounts(got.coordinate_precision, got.coordinate_recall,
                              got.coordinate_f1, ElementWiseSum(coordinates_list))

\* two files with elevation Metrics (2,0,0) and (1,1,0): the rollup is (3,1,0)
\* with F1 = 6/7, which is not the average 5/6 of the two files' F1 scores
C11_Witness ==
    /\ overall_call.op = "get_cumulated_metrics"
    /\ ElevationsOf(CalledFiles) = <<[tp |-> 2, fp |-> 0, fn |-> 0],
                                     [tp |-> 1, fp |-> 1, fn |-> 0]>>
    /\ summed.elevation_metrics = [tp |-> 3, fp |-> 1, fn |-> 0]
    /\ overall_returned[1].elevation_f1 = [num |-> 6, den |-> 7]
    /\ frac_mul(frac_add(f1(CalledFiles[1].elevation_metrics),
                         f1(CalledFiles[2].elevation_metrics)),
                fraction(1, 2)) = [num |-> 5, den |-> 6]

\* row i of the table holds file i's name and F1 scores under the three columns
RowHolds(row, file, name_column, elevation_column, coordinate_column) ==
    /\ {name_column, elevation_column, coordinate_column} \subseteq DOMAIN row
    /\ row[name_column] = file.filename
    /\ ScoresOfCounts(precision(file.elevation_metrics), recall(file.elevation_metrics),
                      row[elevation_column], file.elevation_metrics)
    /\ ScoresOfCounts(precision(file.coordinates_metrics), recall(file.coordinates_metrics),
                      row[coordinate_column], file.coordinates_metrics)

\* the last call returned a table of these columns with one row per file of
\* the instance, in append order
TableOfFiles(name_column, elevation_column, coordinate_column) ==
    /\ overall_raised = "none"
    /\ overall_returned # None
    /\ LET table == overall_returned[1]
       IN  /\ table.columns = <<name_column, elevation_column, coordinate_column>>
           /\ Len(table.rows) = Len(CalledFiles)
           /\ \A i \in 1 .. Len(CalledFiles) :
                 RowHolds(table.rows[i], CalledFiles[i],
                          name_column, elevation_column, coordinate_column)

\* a call on one instance leaves the list of every other instance as it was
OtherInstancesUntouched ==
    \A inst \in Instances :
        overall_call'.instance # inst =>
            borehole_metadata_metrics'[inst] = borehole_metadata_metrics[inst]

\* C12: get_document_level_metrics returns, for every sequence of files
\* appended to a fresh instance (the empty one included), a table with one row
\* per file in append order, holding the file's name, elevation F1 and
\* coordinate F1 under the columns document_name, elevation_f1 and
\* coordinate_f1; files appended to one instance never appear in another.
C12_DocumentLevelTable ==
    /\ [](overall_call.op = "get_document_level_metrics" =>
              TableOfFiles("document_name", "elevation_f1", "coordinate_f1"))
    /\ [][OtherInstancesUntouched]_vars

(***************************************************************************)
(* Properties of the duplicate layer detection                             *)
(***************************************************************************)

\* the layer at index i (from 0) of the sorted candidates
Candidate(i) == sorted_layers[i + 1]

LastIndex == Len(sorted_layers) - 1

\* the candidate's correlation is above 0.62; a fault is no correlation at all
ScoresAbove(layer) == layer.match # None /\ layer.match[1] > 62

\* the three candidates from index i on all score 0.62 or less (or fault)
RunAt(i) ==
    /\ i + 2 <= LastIndex
    /\ \A j \in i .. (i + 2) : ~ScoresAbove(Candidate(j))

RunStarts == {i \in 0 .. LastIndex : RunAt(i)}

\* the start of the first run of three, the length of the list if there is none
FirstRun ==
    IF RunStarts = {} THEN Len(sorted_layers)
    ELSE CHOOSE i \in RunStarts : \A j \in RunStarts : i <= j

\* the indexes the scan reaches: those not behind the end of the first run
Reached == {i \in 0 .. LastIndex : i <= FirstRun + 2}

\* the last reached candidate scoring above 0.62; index 0 if there is none
Boundary ==
    LET above == {i \in Reached : ScoresAbove(Candidate(i))}
    IN  IF above = {} THEN 0 ELSE CHOOSE i \in above : \A j \in above : j <= i

SuffixFrom(index) ==
    [k \in 1 .. (Len(sorted_layers) - index) |-> sorted_layers[index + k]]

\* sorted_layers holds the layers of the argument, ascending by top
SortedCandidates ==
    /\ Len(sorted_layers) = Len(layer_predictions)
    /\ SeqRange(sorted_layers) = SeqRange(layer_predictions)
    /\ \A i \in 1 .. (Len(sorted_layers) - 1) :
          sorted_layers[i].top <= sorted_layers[i + 1].top

\* C13: the result is the suffix of the candidates, sorted ascending by top,
\* that starts at the last candidate scoring above 0.62 before the scan stopped
\* (that candidate included), at index 0 if there is none; when no candidate
\* scores above 0.62 every candidate is returned; a fault of the correlation
\* counts as a score of 0, a non-duplicate.
C13_SuffixFromLastDuplicate ==
    dup_pc = "returned" =>
        /\ SortedCandidates
        /\ dup_returned = SuffixFrom(Boundary)
        /\ (\A i \in 0 .. LastIndex : ~ScoresAbove(Candidate(i)))
              => /\ dup_returned = sorted_layers
                 /\ SeqRange(dup_returned) = SeqRange(layer_predictions)
        /\ \A i \in 0 .. LastIndex :
              (Candidate(i).match = None /\ duplicated_layer_index = i) => i = 0

\* layers given out of order, one of them a duplicate followed by a fault:
\* the result starts at the duplicate
C13_Witness ==
    /\ dup_pc = "returned"
    /\ sorted_layers # layer_predictions
    /\ Len(sorted_layers) >= 3
    /\ ScoresAbove(Candidate(1))
    /\ Candidate(2).match = None
    /\ Len(dup_returned) = Len(sorted_layers) - 1
    /\ dup_returned[1] = Candidate(1)

\* C14 (as stated): every candidate placed before the first run of 3
\* consecutive candidates with correlation <= 0.62 is not in the returned list.
C14_AllBeforeRunRemoved ==
    (dup_pc = "returned" /\ RunStarts # {}) =>
        \A i \in 0 .. (FirstRun - 1) : Candidate(i) \notin SeqRange(dup_returned)

\* C14 (amended): of the candidates placed before the first run of 3
\* consecutive candidates with correlation <= 0.62, the last one (the one that
\* scored above 0.62 right before the run) is in the returned list and every
\* candidate placed before that one is not.
C14_BeforeLastDuplicateRemoved ==
    (dup_pc = "returned" /\ RunStarts # {} /\ FirstRun > 0) =>
        /\ ScoresAbove(Candidate(FirstRun - 1))
        /\ Candidate(FirstRun - 1) \in SeqRange(dup_returned)
        /\ \A i \in 0 .. (FirstRun - 2) : Candidate(i) \notin SeqRange(dup_returned)
        /\ \A i \in FirstRun .. LastIndex : Candidate(i) \in SeqRange(dup_returned)

\* two candidates before the run: the first is removed, the second is kept
C14_Witness ==
    /\ dup_pc = "returned"
    /\ RunStarts # {}
    /\ FirstRun = 2
    /\ Candidate(0) \notin SeqRange(dup_returned)
    /\ Candidate(1) \in SeqRange(dup_returned)

ScoredAbove == {i \in SeqRange(scored) : ScoresAbove(Candidate(i))}

\* the last scored candidate above 0.62; index 0 if there is none
LastScoredAbove ==
    IF ScoredAbove = {} THEN 0
    ELSE CHOOSE i \in ScoredAbove : \A j \in ScoredAbove : j <= i

\* the number of non-duplicates scored since the last duplicate was scored
TrailingNonDuplicates ==
    IF ScoredAbove = {} THEN Len(scored) ELSE Len(scored) - 1 - LastScoredAbove

\* C16: the run-counter starts at 0, is reset by every scored candidate above
\* 0.62 and incremented by every other scored candidate; once it is 3 nothing
\* more is scored and the boundary stays, so that a candidate above 0.62 behind
\* three consecutive non-duplicates does not move the boundary, and at most
\* boundary index + 4 candidates are scored.
C16_RunCounter ==
    /\ dup_pc = "called" =>
          (count_consecutive_non_duplicate_layers = 0 /\ scored = <<>>)
    /\ dup_pc # "called" =>
          /\ scored = [k \in 1 .. scan_index |-> k - 1]
          /\ count_consecutive_non_duplicate_layers = TrailingNonDuplicates
          /\ count_consecutive_non_duplicate_layers <= 3
          /\ \A i \in SeqRange(scored) : ~\E j \in 0 .. LastIndex : RunAt(j) /\ j + 2 < i
          /\ duplicated_layer_index = LastScoredAbove
          /\ Len(scored) <= duplicated_layer_index + 4
    /\ dup_pc = "returned" =>
          /\ SeqRange(scored) = Reached
          /\ dup_returned = SuffixFrom(duplicated_layer_index)
          /\ \A i \in 0 .. LastIndex :
                (ScoresAbove(Candidate(i)) /\ i > FirstRun + 2) =>
                    (i \notin SeqRange(scored) /\ duplicated_layer_index < i)

\* a duplicate at index 0, three non-duplicates, and a candidate above 0.62
\* behind them that was never scored: 4 = boundary index + 4 were scored
C16_Witness ==
    /\ dup_pc = "returned"
    /\ Len(sorted_layers) = 5
    /\ ScoresAbove(Candidate(0))
    /\ count_consecutive_non_duplicate_layers = 3
    /\ Len(scored) = duplicated_layer_index + 4
    /\ \E i \in 0 .. LastIndex : ScoresAbove(Candidate(i)) /\ i \notin SeqRange(scored)
    /\ dup_returned = sorted_layers

(***************************************************************************)
(* Properties of the whole layer evaluation                                *)
(***************************************************************************)

\* the flags of the first n layers are assigned, those of the others are not
FlagsAssignedUpTo(n) ==
    \A i \in 1 .. Len(layers) :
        IF i <= n
        THEN /\ layers[i].material_is_correct \in {Some(TRUE), Some(FALSE)}
             /\ layers[i].depth_interval_is_correct \in {None, Some(TRUE), Some(FALSE)}
        ELSE /\ layers[i].material_is_correct = None
             /\ layers[i].depth_interval_is_correct = None

FlagsConsistent ==
    \A i \in 1 .. Len(layers) :
        /\ layers[i].depth_interval_is_correct = Some(TRUE)
              => layers[i].material_is_correct = Some(TRUE)
        /\ layers[i].material_is_correct = Some(FALSE)
              => layers[i].depth_interval_is_correct = None

\* C15: for every list of predicted layers (interval absent, or with start and
\* end each present or absent) and every ground truth, evaluate_layers raises
\* nothing, assigns the flags of the layers one after the other in their
\* original order, each once, and ends with all of them assigned, where an
\* interval flag of true implies a material flag of true and a material flag
\* of false implies an undefined interval flag.
C15_CompletesAndFlagsOnce ==
    /\ eval_pc # "raised"
    /\ FlagsAssignedUpTo(layer_index)
    /\ Len(consumed) = layer_index
    /\ FlagsConsistent
    /\ eval_pc = "done" => layer_index = Len(layers)

FullPool == [p \in 1 .. Len(ground_truth_layers) |-> p]

\* ground-truth entry p has a text of similarity above 0.9 with layer i and
\* exactly its interval
ExactMatch(i, p) ==
    /\ p \in CandidatesOf(layers[i], FullPool)
    /\ ExactInterval(layers[i], ground_truth_layers[p])

\* the pairs of a layer and a ground-truth entry that match exactly
ExactMatches ==
    {pair \in (1 .. Len(layers)) \X (1 .. Len(ground_truth_layers)) :
        ExactMatch(pair[1], pair[2])}

\* the most layers, from layer i on, that a one-to-one assignment within the
\* pairs of exact can match to entries not in used
RECURSIVE BestFrom(_, _, _)
BestFrom(exact, i, used) ==
    IF i > Len(layers) THEN 0
    ELSE LET free == {p \in 1 .. Len(ground_truth_layers) : p \notin used /\ <<i, p>> \in exact}
             counts == {BestFrom(exact, i + 1, used)}
                           \cup {1 + BestFrom(exact, i + 1, used \cup {p}) : p \in free}
         IN  CHOOSE m \in counts : \A n \in counts : m >= n

BestAssignment == BestFrom(ExactMatches, 1, {})

BothCorrect(flags) ==
    /\ flags.material_is_correct = Some(TRUE)
    /\ flags.depth_interval_is_correct = Some(TRUE)

FlaggedBothCorrect == Cardinality({i \in 1 .. Len(layers) : BothCorrect(layers[i])})

\* layer i, evaluated first, took by similarity (interval incorrect) the entry
\* that the later layer j matches exactly, and j was left without an exact match
Overtaken(i, j) ==
    /\ i < j
    /\ layers[i].material_is_correct = Some(TRUE)
    /\ layers[i].depth_interval_is_correct = Some(FALSE)
    /\ ExactMatch(j, consumed[i])
    /\ ~BothCorrect(layers[j])

\* the layers with layer j moved to the front
MovedToFront(j) ==
    <<layers[j]>> \o SubSeq(layers, 1, j - 1) \o SubSeq(layers, j + 1, Len(layers))

\* C17: the matching is greedy in the original order of the layers: the
\* flags are those of evaluating the layers one after the other, the layers
\* flagged material- and interval-correct are never more than the best
\* one-to-one assignment gives, and strictly fewer whenever an earlier layer
\* took by similarity the entry a later layer would have matched exactly; the
\* same layers with that later layer put first get other flags.
C17_GreedyNotOptimal ==
    eval_pc = "done" =>
        LET flags == evaluate_layers(ground_truth_layers, layers)
            best == BestAssignment
        IN  /\ \A i \in 1 .. Len(layers) :
                  /\ layers[i].material_is_correct = flags[i].material_is_correct
                  /\ layers[i].depth_interval_is_correct = flags[i].depth_interval_is_correct
            /\ FlaggedBothCorrect <= best
            /\ \A i, j \in 1 .. Len(layers) :
                  Overtaken(i, j) =>
                      /\ FlaggedBothCorrect < best
                      /\ BothCorrect(evaluate_layers(ground_truth_layers, MovedToFront(j))[1])

\* the first of two layers took the only ground-truth entry by similarity; the
\* second, which has exactly its interval, is flagged material-incorrect
C17_Witness ==
    /\ eval_pc = "done"
    /\ Len(layers) = 2
    /\ Len(ground_truth_layers) = 1
    /\ Overtaken(1, 2)
    /\ FlaggedBothCorrect = 0
    /\ BestAssignment = 1
    /\ layers[2].material_is_correct = Some(FALSE)

====
